---------------------------- MODULE Spec2Model ----------------------------
(***************************************************************************)
(* The record store of src/main.py: class VideoStore (an in-memory list    *)
(* of Video records mirrored to a JSON backing file) and the Video         *)
(* dataclass.  One store instance works on one backing file; "reload"      *)
(* is the construction of a fresh store on the same path.                  *)
(***************************************************************************)
EXTENDS Integers, Sequences, FiniteSets, TLC

VARIABLES
    file,      \* content of the backing file at self.path
    videos,    \* self.videos of the live store instance
    fresh,     \* TRUE iff the first store was constructed on a missing backing file
    op,        \* last store operation: "init", "reload", "add", "delete"
    outcome,   \* how the last operation ended: "returned" or "raised"
    retRec,    \* <<v>> when the last operation returned the Video v, else <<>>
    retBool,   \* the boolean the last delete returned (FALSE otherwise)
    lastIo,    \* what _save did in the last operation: "none" when not called
    argId,     \* video_id argument of the last delete (0 otherwise)
    argAdd,    \* <<title, description, uploader, tags>> of the last add
    issued,    \* ids returned by add since this store instance was constructed
    onlyAdds,  \* TRUE while this instance has executed nothing but add calls
    adds,      \* number of add calls made so far (bounds the model)
    qArg,      \* argument of the last search (query) or get (video_id)
    qRet,      \* what the last list / search / get / next_id call returned
    listed,    \* the list object the caller holds from the last list() call
    me,        \* of the running instance: mutations made, record its last add returned
    other      \* a second instance on the same path: its self.videos, and the same

vars == <<file, videos, fresh, op, outcome, retRec, retBool, lastIo,
          argId, argAdd, issued, onlyAdds, adds, qArg, qRet, listed,
          me, other>>

(* Bound on the number of add calls of one behaviour. *)
MaxAdds == 2
(* The same bound where the read-only operations take part as well. *)
MaxAddsQ == 1
(* Bound on the mutations each of two instances on one file makes. *)
MaxEach == 1

(***************************************************************************)
(* Values.  Text is a sequence of characters.                              *)
(***************************************************************************)
Titles == { <<"P", "y">> }
Descriptions == { <<"h", "i">> }
Uploaders == { <<"a">> }
Tag == <<"p", "y", "3">>
(* The tags argument of add is Optional: <<>> is None, <<t>> is the list t. *)
TagArgs == { <<>>, << <<>> >>, << <<Tag, Tag>> >> }
(* Values datetime.utcnow().isoformat() + "Z" can take. *)
Times == { <<"T", "1", "Z">>, <<"T", "2", "Z">> }

(* The fields of the Video dataclass, and those without a default. *)
VideoFields == {"id", "title", "description", "uploader", "tags", "uploaded_at"}
RequiredFields == {"id", "title", "description", "uploader"}

(* Video(id=..., title=..., description=..., uploader=..., tags=..., uploaded_at=...) *)
Video(id, title, description, uploader, tags, uploaded_at) ==
    [id |-> id, title |-> title, description |-> description,
     uploader |-> uploader, tags |-> tags, uploaded_at |-> uploaded_at]

(***************************************************************************)
(* The backing file.  kind is "missing" (no such path), "unreadable"       *)
(* (exists, open fails), "garbage" (not JSON, e.g. a truncated write),     *)
(* "nonarray" (JSON, but no array of objects) or "array" (a JSON array     *)
(* whose items are the objects in items).                                  *)
(***************************************************************************)
FileOf(kind, items) == [kind |-> kind, items |-> items]

ObjA == Video(1, <<"v">>, <<"h", "i">>, <<"a">>, <<>>, <<"T", "1", "Z">>)
ObjB == Video(2, <<"P", "y">>, <<"h", "i">>, <<"a">>, <<Tag>>, <<"T", "2", "Z">>)
ObjDupA == Video(1, <<"P", "y">>, <<"h", "i">>, <<"a">>, <<>>, <<"T", "2", "Z">>)
ObjNoDefaults == [id |-> -2, title |-> <<"v">>, description |-> <<"h", "i">>,
                  uploader |-> <<"a">>]
ObjNoTitle == [id |-> 2, description |-> <<"h", "i">>, uploader |-> <<"a">>]
ObjExtraKey == [id |-> 2, title |-> <<"v">>, description |-> <<"h", "i">>,
                uploader |-> <<"a">>, views |-> <<"x">>]

(* Backing files a store can be constructed on. *)
InitFiles ==
    { FileOf("missing", <<>>), FileOf("unreadable", <<>>),
      FileOf("garbage", <<>>), FileOf("nonarray", <<>>),
      FileOf("array", <<>>),
      FileOf("array", <<ObjB, ObjA>>),
      FileOf("array", <<ObjA, ObjDupA>>),
      FileOf("array", <<ObjNoDefaults>>),
      FileOf("array", <<ObjA, ObjNoTitle>>),
      FileOf("array", <<ObjA, ObjExtraKey>>) }

(***************************************************************************)
(* _load                                                                   *)
(***************************************************************************)
(* Constructing a Video from the keys of o raises TypeError on an unexpected *)
(* key or a missing required one.                                           *)
Decodable(o) == DOMAIN o \subseteq VideoFields /\ RequiredFields \subseteq DOMAIN o

(* Mutant: the timestamp is re-derived when the record is read. *)
DecodeRestamped(o, now) ==
    Video(o.id, o.title, o.description, o.uploader,
          IF "tags" \in DOMAIN o THEN o.tags ELSE <<>>, now)

(* The Video built from the keys of o: absent tags / uploaded_at take the   *)
(* dataclass defaults.                                                     *)
Decode(o, now) ==
    Video(o.id, o.title, o.description, o.uploader,
          IF "tags" \in DOMAIN o THEN o.tags ELSE <<>>,
          IF "uploaded_at" \in DOMAIN o THEN o.uploaded_at ELSE now)

(* The try block raises: open fails, json.load fails, or a Video cannot be *)
(* constructed from an item.                                               *)
LoadRaises(f) ==
    \/ f.kind \in {"unreadable", "garbage", "nonarray"}
    \/ f.kind = "array" /\ \E i \in 1..Len(f.items) : ~Decodable(f.items[i])

(* Mutant: the records decoded before the failing one are kept. *)
LoadKeepPrefix(f, now) ==
    IF f.kind # "array" THEN <<>>
    ELSE LET bad == {i \in 1..Len(f.items) : ~Decodable(f.items[i])}
             n == IF bad = {} THEN Len(f.items)
                  ELSE (CHOOSE i \in bad : \A j \in bad : i <= j) - 1
         IN [i \in 1..n |-> Decode(f.items[i], now)]

(* self.videos after _load on file f, the clock reading now. *)
Load(f, now) ==
    IF f.kind = "missing" THEN <<>>
    ELSE IF LoadRaises(f) THEN <<>>
    ELSE [i \in 1..Len(f.items) |-> Decode(f.items[i], now)]

(***************************************************************************)
(* _save                                                                   *)
(***************************************************************************)
(* What can happen in _save: it completes, open(path, "w") raises, or      *)
(* json.dump / close raises after open has truncated the file.             *)
IoOutcomes == {"ok", "open_fail", "write_fail"}

(* asdict(v) *)
AsDict(v) == [k \in VideoFields |-> v[k]]

(* Mutant: the last record is appended to what the file holds. *)
SaveAppended(f, vs, io) ==
    IF io = "ok" /\ f.kind = "array" /\ vs # <<>>
    THEN FileOf("array", Append(f.items, [k \in VideoFields |-> vs[Len(vs)][k]]))
    ELSE IF io = "ok" THEN FileOf("array", [i \in 1..Len(vs) |-> [k \in VideoFields |-> vs[i][k]]])
    ELSE IF io = "open_fail" THEN f
    ELSE FileOf("garbage", <<>>)

(* Mutant: the write is deferred, the file keeps its content. *)
SaveWriteBehind(f, vs, io) == f

(* The backing file after _save of the list vs with I/O outcome io. *)
Save(f, vs, io) ==
    CASE io = "ok" -> FileOf("array", [i \in 1..Len(vs) |-> AsDict(vs[i])])
      [] io = "open_fail" -> f
      [] io = "write_fail" -> FileOf("garbage", <<>>)

(* Mutant: an error of _save is swallowed. *)
SaveSwallowed(io) == "returned"

(* An exception of _save is not caught in add / delete. *)
SaveResult(io) == IF io = "ok" THEN "returned" ELSE "raised"

(***************************************************************************)
(* next_id, add, delete                                                    *)
(***************************************************************************)
IdsOf(vs) == {vs[i].id : i \in 1..Len(vs)}

(* Mutant: the increment is forgotten. *)
NextIdNoIncrement(vs) ==
    IF vs = <<>> THEN 0
    ELSE CHOOSE m \in IdsOf(vs) : \A x \in IdsOf(vs) : x <= m

(* Mutant: ids are counted from the length of the list. *)
NextIdFromLen(vs) == Len(vs) + 1

(* max((v.id for v in self.videos), default=0) + 1 *)
next_id(vs) ==
    IF vs = <<>> THEN 0 + 1
    ELSE (CHOOSE m \in IdsOf(vs) : \A x \in IdsOf(vs) : x <= m) + 1

(* tags or [] *)
TagsOrEmpty(tagsArg) == IF tagsArg = <<>> \/ tagsArg[1] = <<>> THEN <<>> ELSE tagsArg[1]

(* Mutant: the new record is put in front. *)
AppendInFront(vs, v) == <<v>> \o vs

(* self.videos.append(vid) *)
AppendVideo(vs, v) == Append(vs, v)

(* Mutant: the scan stops at the first record with the id. *)
FilterFromMatch(vs, id) ==
    IF \E i \in 1..Len(vs) : vs[i].id = id
    THEN LET k == CHOOSE i \in 1..Len(vs) :
                      vs[i].id = id /\ \A j \in 1..(i - 1) : vs[j].id # id
         IN SubSeq(vs, 1, k - 1)
    ELSE vs

(* [v for v in self.videos if v.id != video_id] *)
FilterOut(vs, id) == LET Keep(v) == v.id # id IN SelectSeq(vs, Keep)

(* Mutant: the save is not conditional. *)
ChangedAlways(before, after) == TRUE

(* changed = len(self.videos) != before *)
Changed(before, after) == after # before

(* Mutant: a failed save undoes the change of the list. *)
RollbackOnFailure(before, after, io) == IF io = "ok" THEN after ELSE before

(* self.videos once _save has run with outcome io: add and delete have no   *)
(* except clause, the list assigned before the call stays as it is.         *)
AfterSave(before, after, io) == after

NoArgs == <<>>

(* No second instance has been constructed on the path. *)
NoInstance == [videos |-> <<>>, muts |-> 0, added |-> <<>>]

(* The caller holds no list returned by list(). *)
NoList == [obj |-> "none", items |-> <<>>]

InitStore ==
    /\ file \in InitFiles
    /\ \E now \in Times : videos = Load(file, now)
    /\ fresh = (file.kind = "missing")
    /\ op = "init"
    /\ outcome = "returned"
    /\ retRec = <<>>
    /\ retBool = FALSE
    /\ lastIo = "none"
    /\ argId = 0
    /\ argAdd = NoArgs
    /\ issued = {}
    /\ onlyAdds = TRUE
    /\ adds = 0
    /\ qArg = NoArgs
    /\ qRet = <<>>
    /\ listed = NoList
    /\ me = [muts |-> 0, added |-> <<>>]

Init == InitStore /\ other = NoInstance

(* VideoStore.add *)
add(title, description, uploader, tagsArg, now, io) ==
    LET vid == Video(next_id(videos), title, description, uploader,
                     TagsOrEmpty(tagsArg), now)
        vs == AppendVideo(videos, vid)
        res == SaveResult(io)
    IN /\ adds < MaxAdds
       /\ adds' = adds + 1
       /\ videos' = AfterSave(videos, vs, io)
       /\ file' = Save(file, vs, io)
       /\ lastIo' = io
       /\ op' = "add"
       /\ outcome' = res
       /\ retRec' = IF res = "returned" THEN <<vid>> ELSE <<>>
       /\ retBool' = FALSE
       /\ argId' = 0
       /\ argAdd' = <<title, description, uploader, tagsArg>>
       /\ issued' = IF res = "returned" THEN issued \cup {vid.id} ELSE issued
       /\ UNCHANGED <<fresh, onlyAdds>>

(* VideoStore.delete *)
delete(video_id, io) ==
    LET before == Len(videos)
        vs == FilterOut(videos, video_id)
        changed == Changed(before, Len(vs))
        res == IF changed THEN SaveResult(io) ELSE "returned"
    IN /\ videos' = (IF changed THEN AfterSave(videos, vs, io) ELSE vs)
       /\ file' = IF changed THEN Save(file, vs, io) ELSE file
       /\ lastIo' = IF changed THEN io ELSE "none"
       /\ op' = "delete"
       /\ outcome' = res
       /\ retRec' = <<>>
       /\ retBool' = IF res = "returned" THEN changed ELSE FALSE
       /\ argId' = video_id
       /\ argAdd' = NoArgs
       /\ onlyAdds' = FALSE
       /\ UNCHANGED <<fresh, issued, adds>>

(* VideoStore.__init__ of a fresh instance on the same path *)
reload(now) ==
    /\ videos' = Load(file, now)
    /\ op' = "reload"
    /\ outcome' = "returned"
    /\ retRec' = <<>>
    /\ retBool' = FALSE
    /\ lastIo' = "none"
    /\ argId' = 0
    /\ argAdd' = NoArgs
    /\ issued' = {}
    /\ onlyAdds' = TRUE
    /\ UNCHANGED <<file, fresh, adds>>

(* Ids a caller may pass to delete: every id present, and one that is absent. *)
DeleteArgs(vs) ==
    IdsOf(vs) \cup {CHOOSE a \in {0} \cup {i + 1 : i \in IdsOf(vs)} : a \notin IdsOf(vs)}

(* A mutating call or a construction: the caller keeps no earlier result. *)
NoQuery == qArg' = NoArgs /\ qRet' = <<>> /\ listed' = NoList

(* One instance only is at work. *)
Single == UNCHANGED <<me, other>>

AddOp ==
    \E title \in Titles, description \in Descriptions, uploader \in Uploaders,
       tagsArg \in TagArgs, now \in Times, io \in IoOutcomes :
        add(title, description, uploader, tagsArg, now, io) /\ NoQuery /\ Single

DeleteOp ==
    \E video_id \in DeleteArgs(videos), io \in IoOutcomes :
        delete(video_id, io) /\ NoQuery /\ Single

ReloadOp == \E now \in Times : reload(now) /\ NoQuery /\ Single

Next == AddOp \/ DeleteOp \/ ReloadOp

Spec == Init /\ [][Next]_vars

(***************************************************************************)
(* The read-only operations: search, get, list, next_id                    *)
(***************************************************************************)
Uppers == <<"A", "B", "C", "D", "E", "F", "G", "H", "I", "J", "K", "L", "M",
            "N", "O", "P", "Q", "R", "S", "T", "U", "V", "W", "X", "Y", "Z">>
Lowers == <<"a", "b", "c", "d", "e", "f", "g", "h", "i", "j", "k", "l", "m",
            "n", "o", "p", "q", "r", "s", "t", "u", "v", "w", "x", "y", "z">>

(* str.lower() on text of ASCII letters and digits *)
lower(str) ==
    [i \in 1..Len(str) |->
        IF \E k \in 1..Len(Uppers) : Uppers[k] = str[i]
        THEN Lowers[CHOOSE k \in 1..Len(Uppers) : Uppers[k] = str[i]]
        ELSE str[i]]

(* q in s, for strings *)
Contains(q, str) ==
    \E i \in 0..(Len(str) - Len(q)) : \A k \in 1..Len(q) : str[i + k] = q[k]

(* Mutant: the uploader is searched too. *)
MatchesWithUploader(q, v) ==
    \/ Contains(q, lower(v.title))
    \/ Contains(q, lower(v.description))
    \/ Contains(q, lower(v.uploader))
    \/ \E n \in 1..Len(v.tags) : Contains(q, lower(v.tags[n]))

(* The condition of the comprehension in search, q being query.lower(). *)
Matches(q, v) ==
    \/ Contains(q, lower(v.title))
    \/ Contains(q, lower(v.description))
    \/ \E n \in 1..Len(v.tags) : Contains(q, lower(v.tags[n]))

(* VideoStore.search: the list returned *)
SearchResult(vs, query) ==
    LET q == lower(query)
        Hit(v) == Matches(q, v)
    IN SelectSeq(vs, Hit)

(* Mutant: the scan keeps the last record with the id. *)
GetLast(vs, video_id) ==
    IF \E i \in 1..Len(vs) : vs[i].id = video_id
    THEN <<vs[CHOOSE i \in 1..Len(vs) :
                 vs[i].id = video_id /\ \A j \in (i + 1)..Len(vs) : vs[j].id # video_id]>>
    ELSE <<>>

(* VideoStore.get: <<v>> for the Video returned, <<>> for None *)
GetResult(vs, video_id) ==
    IF \E i \in 1..Len(vs) : vs[i].id = video_id
    THEN <<vs[CHOOSE i \in 1..Len(vs) :
                 vs[i].id = video_id /\ \A j \in 1..(i - 1) : vs[j].id # video_id]>>
    ELSE <<>>

(* Mutant: list hands out the store's own list object. *)
ListAliased(vs) == [obj |-> "store", items |-> vs]

(* VideoStore.list: list(self.videos) is a new list object with the same items *)
ListResult(vs) == [obj |-> "copy", items |-> vs]

(* A read-only call leaves the store alone; the result variables of the     *)
(* mutating operations are cleared.                                         *)
ReadOnly(name) ==
    /\ op' = name
    /\ outcome' = "returned"
    /\ retRec' = <<>>
    /\ retBool' = FALSE
    /\ lastIo' = "none"
    /\ argId' = 0
    /\ argAdd' = NoArgs
    /\ UNCHANGED <<file, videos, fresh, issued, onlyAdds, adds, me, other>>

(* Queries a caller passes to search. *)
Queries == { <<>>, <<"P", "Y">>, <<"Y", "3">>, <<"3", "p">>, <<"a">>, <<"V">> }

(* VideoStore.search *)
search(query) ==
    /\ ReadOnly("search")
    /\ qArg' = query
    /\ qRet' = SearchResult(videos, query)
    /\ listed' = NoList

(* VideoStore.get *)
get(video_id) ==
    /\ ReadOnly("get")
    /\ qArg' = video_id
    /\ qRet' = GetResult(videos, video_id)
    /\ listed' = NoList

(* VideoStore.list *)
list ==
    /\ ReadOnly("list")
    /\ qArg' = NoArgs
    /\ listed' = ListResult(videos)
    /\ qRet' = listed'.items

(* VideoStore.next_id called by itself *)
NextIdCall ==
    /\ ReadOnly("next_id")
    /\ qArg' = NoArgs
    /\ qRet' = <<next_id(videos)>>
    /\ listed' = NoList

(* What a caller does to the list it got from list(). *)
ListEdits == {"append", "remove", "reverse"}

EditedList(items, how) ==
    CASE how = "append" -> Append(items, ObjA)
      [] how = "remove" -> IF items = <<>> THEN items ELSE Tail(items)
      [] how = "reverse" -> [i \in 1..Len(items) |-> items[Len(items) + 1 - i]]

(* The caller changes the list returned by the list() call just made; the   *)
(* store's list changes with it exactly when it is the same object.         *)
CallerEditsList(how) ==
    /\ op = "list" /\ listed.obj # "none"
    /\ listed' = [listed EXCEPT !.items = EditedList(listed.items, how)]
    /\ videos' = IF listed.obj = "store" THEN listed'.items ELSE videos
    /\ op' = "caller"
    /\ UNCHANGED <<file, fresh, outcome, retRec, retBool, lastIo, argId, argAdd,
                   issued, onlyAdds, adds, qArg, qRet, me, other>>

SearchOp == \E query \in Queries : search(query)

GetOp == \E video_id \in DeleteArgs(videos) : get(video_id)

ListOp == list

CallerOp == \E how \in ListEdits : CallerEditsList(how)

AddOpQ == adds < MaxAddsQ /\ AddOp

NextQ ==
    AddOpQ \/ DeleteOp \/ ReloadOp \/ SearchOp \/ GetOp \/ ListOp \/ NextIdCall \/ CallerOp

(* The store used through its whole public interface. *)
SpecQ == Init /\ [][NextQ]_vars


(***************************************************************************)
(* Two store instances (two processes) constructed on the same path.       *)
(* videos is self.videos of the instance that is running, other.videos     *)
(* that of the instance that is not; Switch hands the processor over.      *)
(***************************************************************************)
InitTwo ==
    /\ InitStore
    /\ \E now \in Times : other = [videos |-> Load(file, now), muts |-> 0, added |-> <<>>]

(* add by the running instance *)
AddTwo ==
    /\ me.muts < MaxEach
    /\ \E title \in Titles, description \in Descriptions, uploader \in Uploaders,
          tagsArg \in TagArgs, now \in Times, io \in IoOutcomes :
           add(title, description, uploader, tagsArg, now, io)
    /\ NoQuery
    /\ me' = [muts |-> me.muts + 1,
              added |-> IF outcome' = "returned" THEN retRec' ELSE me.added]
    /\ UNCHANGED other

(* delete of a record it holds by the running instance *)
DeleteTwo ==
    /\ me.muts < MaxEach
    /\ \E video_id \in IdsOf(videos), io \in IoOutcomes : delete(video_id, io)
    /\ NoQuery
    /\ me' = [me EXCEPT !.muts = me.muts + 1]
    /\ UNCHANGED other

(* The other process runs from here on; no store code is executed. *)
Switch ==
    /\ videos' = other.videos
    /\ me' = [muts |-> other.muts, added |-> other.added]
    /\ other' = [videos |-> videos, muts |-> me.muts, added |-> me.added]
    /\ op' = "switch"
    /\ outcome' = "returned"
    /\ retRec' = <<>>
    /\ retBool' = FALSE
    /\ lastIo' = "none"
    /\ argId' = 0
    /\ argAdd' = NoArgs
    /\ issued' = {}
    /\ UNCHANGED <<file, fresh, onlyAdds, adds, qArg, qRet, listed>>

NextTwo == AddTwo \/ DeleteTwo \/ Switch

SpecTwo == InitTwo /\ [][NextTwo]_vars

(***************************************************************************)
(* Vocabulary of the properties                                            *)
(***************************************************************************)
(* The last operation was an add that returned or a delete that returned true. *)
MutationSucceeded ==
    \/ op = "add" /\ outcome = "returned"
    \/ op = "delete" /\ outcome = "returned" /\ retBool

(* The file holds exactly the array of the records vs, field by field. *)
FileHolds(f, vs) ==
    /\ f.kind = "array"
    /\ Len(f.items) = Len(vs)
    /\ \A i \in 1..Len(vs) :
          /\ DOMAIN f.items[i] = VideoFields
          /\ \A k \in VideoFields : f.items[i][k] = vs[i][k]

(* The file cannot be read as an array of records. *)
FileBroken(f) ==
    \/ f.kind # "array"
    \/ \E i \in 1..Len(f.items) :
          \/ \E k \in RequiredFields : k \notin DOMAIN f.items[i]
          \/ \E k \in DOMAIN f.items[i] : k \notin VideoFields

(* vs with every record of the given id left out, order kept. *)
RECURSIVE Without(_, _)
Without(vs, id) ==
    IF vs = <<>> THEN <<>>
    ELSE IF Head(vs).id = id THEN Without(Tail(vs), id)
    ELSE <<Head(vs)>> \o Without(Tail(vs), id)

(* vs with the single record at position k left out. *)
DropAt(vs, k) == SubSeq(vs, 1, k - 1) \o SubSeq(vs, k + 1, Len(vs))

(***************************************************************************)
(* C1: in a store session made of add calls only, the id of each returned  *)
(* record is strictly greater than the id returned by every earlier add.   *)
(***************************************************************************)
C1_AddIdsStrictlyIncrease ==
    [][(op' = "add" /\ outcome' = "returned" /\ onlyAdds')
         => \A i \in issued : i < retRec'[1].id]_vars

C1_Witness ==
    /\ onlyAdds /\ op = "add" /\ outcome = "returned"
    /\ Cardinality(issued) >= 2
    /\ Len(videos) > Cardinality(issued)

C3_IdsPairwiseDistinct ==
    fresh => \A i, j \in 1..Len(videos) : i # j => videos[i].id # videos[j].id

C3_Witness == fresh /\ op = "reload" /\ Len(videos) >= 2

(***************************************************************************)
(* C4: right after an add that returned or a delete that returned true the *)
(* backing file holds exactly the serialization of the in-memory sequence. *)
(***************************************************************************)
C4_FileMirrorsMemory == MutationSucceeded => FileHolds(file, videos)

C4_Witness ==
    /\ op = "delete" /\ outcome = "returned" /\ retBool
    /\ Len(videos) >= 1 /\ adds >= 1

(***************************************************************************)
(* C5: a fresh store constructed right after a successful add or delete    *)
(* lists the same records, with identical fields, in the same order.       *)
(***************************************************************************)
C5_ReloadRoundTrip ==
    [][(MutationSucceeded /\ op' = "reload") => videos' = videos]_vars

C5_Witness ==
    /\ op = "reload" /\ fresh /\ Len(videos) = 2
    /\ videos[1].tags = <<Tag, Tag>> /\ videos[2].tags = <<>>
    /\ videos[1].uploaded_at # videos[2].uploaded_at

(***************************************************************************)
(* C6: constructing a store never raises; on a missing, unreadable,        *)
(* unparseable or undecodable backing file the store starts empty, keeping *)
(* no prefix of the records decoded before the failure.                    *)
(***************************************************************************)
C6_BrokenFileLoadsEmpty ==
    op \in {"init", "reload"}
        => outcome = "returned" /\ (FileBroken(file) => videos = <<>>)

C6_Witness ==
    /\ op = "init" /\ file.kind = "array" /\ Len(file.items) = 2
    /\ videos = <<>>

(***************************************************************************)
(* C7: when _save fails inside add or delete the operation raises: it      *)
(* returns no record and does not return true.                             *)
(***************************************************************************)
C7_SaveFailurePropagates ==
    (op \in {"add", "delete"} /\ lastIo \in {"open_fail", "write_fail"})
        => outcome = "raised" /\ retRec = <<>> /\ retBool = FALSE

C7_Witness ==
    /\ op = "delete" /\ lastIo = "write_fail" /\ outcome = "raised"
    /\ argId \notin IdsOf(videos)

(***************************************************************************)
(* C8: delete of an id no record has returns false, leaves the in-memory   *)
(* sequence unchanged and does not touch the backing file.                 *)
(***************************************************************************)
C8_AbsentDeleteIsNoOp ==
    [][(op' = "delete" /\ argId' \notin IdsOf(videos))
         => /\ outcome' = "returned" /\ retBool' = FALSE
            /\ videos' = videos
            /\ file' = file
            /\ lastIo' = "none"]_vars

C8_Witness ==
    /\ op = "delete" /\ outcome = "returned" /\ ~retBool /\ lastIo = "none"
    /\ videos # <<>> /\ file.kind = "missing"

(***************************************************************************)
(* C9 as stated: delete of an id a record has returns true and removes     *)
(* exactly that one record, the others staying in their order.             *)
(***************************************************************************)
C9_DeleteRemovesExactlyOne ==
    [][(op' = "delete" /\ argId' \in IdsOf(videos))
         => /\ outcome' = "returned" /\ retBool'
            /\ \E k \in 1..Len(videos) :
                  videos[k].id = argId' /\ videos' = DropAt(videos, k)]_vars

(***************************************************************************)
(* C9 amended: delete of an id some record has removes every record with   *)
(* that id and nothing else, the others staying unchanged in their order;  *)
(* it returns true when the save succeeds and raises when the save fails.  *)
(***************************************************************************)
C9_DeleteRemovesAllWithId ==
    [][(op' = "delete" /\ argId' \in IdsOf(videos))
         => /\ videos' = Without(videos, argId')
            /\ lastIo' # "none"
            /\ lastIo' = "ok" => (outcome' = "returned" /\ retBool')
            /\ lastIo' # "ok" => outcome' = "raised"]_vars

C9_Witness ==
    /\ op = "delete" /\ outcome = "returned" /\ retBool
    /\ Len(videos) >= 2 /\ videos[1].id < argId /\ argId < videos[2].id

(***************************************************************************)
(* C10: add appends exactly one record at the end, carrying the id         *)
(* next_id() had before the call and the title, description, uploader and  *)
(* tags given, and returns it; a load keeps the order of the file.         *)
(***************************************************************************)
C10_AddAppendsAtEnd ==
    [][/\ op' = "add"
            => /\ Len(videos') = Len(videos) + 1
               /\ SubSeq(videos', 1, Len(videos)) = videos
               /\ LET r == videos'[Len(videos')]
                  IN /\ r.id = next_id(videos)
                     /\ r.title = argAdd'[1]
                     /\ r.description = argAdd'[2]
                     /\ r.uploader = argAdd'[3]
                     /\ r.tags = IF argAdd'[4] = <<>> THEN <<>> ELSE argAdd'[4][1]
                     /\ r.uploaded_at \in Times
                     /\ outcome' = "returned" => retRec' = <<r>>
       /\ (op' = "reload" /\ ~FileBroken(file))
            => /\ Len(videos') = Len(file.items)
               /\ \A i \in 1..Len(videos') : videos'[i].id = file.items[i].id]_vars

C10_Witness ==
    /\ op = "add" /\ outcome = "returned"
    /\ Len(videos) = 3 /\ videos[1].id > videos[2].id
    /\ retRec = <<videos[3]>> /\ videos[3].tags = <<Tag, Tag>>

(***************************************************************************)
(* C17 as stated: after an add or delete whose save failed the mutation    *)
(* stays in memory, so the in-memory sequence and the backing file differ. *)
(***************************************************************************)
C17_FailedSaveLeavesFileDifferent ==
    (op \in {"add", "delete"} /\ outcome = "raised") => ~FileHolds(file, videos)

(***************************************************************************)
(* C17 amended: a failed save is not rolled back (the record added stays,  *)
(* the records deleted stay removed), the file keeps its content or is     *)
(* left truncated, and memory and file differ right after the failure      *)
(* whenever they agreed before the call.                                   *)
(***************************************************************************)
C17_NoRollbackOnFailedSave ==
    [][(op' \in {"add", "delete"} /\ outcome' = "raised")
         => /\ op' = "add"
                 => /\ Len(videos') = Len(videos) + 1
                    /\ SubSeq(videos', 1, Len(videos)) = videos
                    /\ videos'[Len(videos')].title = argAdd'[1]
            /\ op' = "delete"
                 => /\ argId' \in IdsOf(videos)
                    /\ videos' = Without(videos, argId')
            /\ file' = file \/ file'.kind = "garbage"
            /\ FileHolds(file, videos) => ~FileHolds(file', videos')]_vars

C17_Witness ==
    /\ op = "delete" /\ outcome = "raised" /\ lastIo = "open_fail"
    /\ file.kind = "array" /\ Len(file.items) = Len(videos) + 1
    /\ videos # <<>>

(***************************************************************************)
(* C18: when the save following a successful save fails after the file was *)
(* opened for writing, a store constructed afterwards loads exactly the    *)
(* records of that last successful save.                                   *)
(***************************************************************************)
C18_FailedWriteKeepsLastSave ==
    [][(MutationSucceeded /\ op' \in {"add", "delete"} /\ lastIo' = "write_fail")
         => \A now \in Times : Load(file', now) = videos]_vars

(***************************************************************************)
(* C19: from a store constructed on a missing backing file, after any      *)
(* sequence of add, delete and reload the ids are strictly increasing in   *)
(* sequence order, so the last record carries the maximum id.              *)
(***************************************************************************)
C19_IdsIncreaseInOrder ==
    fresh => \A i, j \in 1..Len(videos) : i < j => videos[i].id < videos[j].id

C19_Witness ==
    /\ fresh /\ op = "delete" /\ ~retBool /\ outcome = "returned"
    /\ Len(videos) >= 2 /\ videos[Len(videos)].id = Len(videos)

(* q occurs in str as a run of consecutive characters. *)
SubstringOf(q, str) ==
    \E a \in 1..(Len(str) + 1) :
        a + Len(q) - 1 <= Len(str) /\ SubSeq(str, a, a + Len(q) - 1) = q

(* The record is one the claim says search(query) returns. *)
Searched(query, v) ==
    \/ SubstringOf(lower(query), lower(v.title))
    \/ SubstringOf(lower(query), lower(v.description))
    \/ \E t \in {v.tags[n] : n \in 1..Len(v.tags)} : SubstringOf(lower(query), lower(t))

RECURSIVE Hits(_, _)
Hits(vs, query) ==
    IF vs = <<>> THEN <<>>
    ELSE IF Searched(query, Head(vs)) THEN <<Head(vs)>> \o Hits(Tail(vs), query)
    ELSE Hits(Tail(vs), query)

(***************************************************************************)
(* C11: search(query) returns, in insertion order, exactly the records     *)
(* whose lower-cased title, description or one of whose lower-cased tags   *)
(* contains the lower-cased query (the uploader is not searched); the      *)
(* empty query returns every record; memory and file are left unchanged.   *)
(***************************************************************************)
C11_SearchReturnsMatches ==
    [][op' = "search"
         => /\ qRet' = Hits(videos, qArg')
            /\ qArg' = <<>> => qRet' = videos
            /\ outcome' = "returned"
            /\ videos' = videos /\ file' = file]_vars

C11_Witness ==
    /\ op = "search" /\ qArg = <<"Y", "3">>
    /\ Len(qRet) = 1 /\ Len(videos) = 3
    /\ qRet[1] = videos[1]

(***************************************************************************)
(* C12: get(id) returns the first record in sequence order with that id,   *)
(* returns None exactly when no record has the id, raises nothing and      *)
(* leaves memory and file unchanged.                                       *)
(***************************************************************************)
C12_GetReturnsFirstMatch ==
    [][op' = "get"
         => /\ outcome' = "returned"
            /\ qRet' = <<>> <=> qArg' \notin {videos[i].id : i \in 1..Len(videos)}
            /\ \A k \in 1..Len(videos) :
                  (videos[k].id = qArg' /\ \A j \in 1..(k - 1) : videos[j].id # qArg')
                      => qRet' = <<videos[k]>>
            /\ videos' = videos /\ file' = file]_vars

C12_Witness ==
    /\ op = "get" /\ Len(videos) >= 2 /\ qRet = <<videos[1]>>
    /\ videos[2].id = qArg /\ videos[2] # videos[1]

(***************************************************************************)
(* C13: list() returns the current records in insertion order as a list of *)
(* its own: appending to, removing from or reordering the returned list    *)
(* changes neither the store's sequence (hence no later list, get, search  *)
(* or next_id result) nor the backing file.                                *)
(***************************************************************************)
C13_ListIsIndependentCopy ==
    [][/\ op' = "list" => (qRet' = videos /\ videos' = videos /\ file' = file)
       /\ op' = "caller"
            => /\ videos' = videos /\ file' = file
               /\ next_id(videos') = next_id(videos)
               /\ \A q \in Queries : Hits(videos', q) = Hits(videos, q)]_vars

C13_Witness ==
    /\ op = "caller" /\ Len(videos) >= 2
    /\ Len(listed.items) = Len(videos) /\ listed.items # videos

(***************************************************************************)
(* C14: next_id() returns 1 on an empty store and otherwise one more than  *)
(* the maximum id held, also when the records were loaded from the file.   *)
(***************************************************************************)
C14_NextIdIsMaxPlusOne ==
    op = "next_id"
        => /\ videos = <<>> => qRet = <<1>>
           /\ videos # <<>>
                => \E i \in 1..Len(videos) :
                      /\ \A j \in 1..Len(videos) : videos[j].id <= videos[i].id
                      /\ qRet = <<videos[i].id + 1>>

C14_Witness ==
    /\ op = "next_id" /\ adds = 0 /\ videos # <<>> /\ qRet[1] < 1

BothAddedOnce ==
    /\ op = "add" /\ outcome = "returned"
    /\ me.muts = 1 /\ other.muts = 1
    /\ me.added # <<>> /\ other.added # <<>>

(***************************************************************************)
(* C16: of two instances constructed on the same file, a mutation of one   *)
(* whose save succeeds raises nothing, leaves the other's memory alone and *)
(* makes the file hold exactly its own in-memory sequence; after one add   *)
(* each, both adds have returned the same id and the file holds the last   *)
(* saver's records only, the other add being absent from it.               *)
(***************************************************************************)
C16_LastWriterWins ==
    [][/\ (op' \in {"add", "delete"} /\ lastIo' = "ok")
            => /\ outcome' = "returned"
               /\ FileHolds(file', videos')
               /\ other'.videos = other.videos
       /\ BothAddedOnce'
            => /\ me'.added[1].id = other'.added[1].id
               /\ Len(file'.items) = Len(other'.videos)
               /\ me'.added # other'.added
                    => \A i \in 1..Len(file'.items) :
                          \E k \in VideoFields :
                             file'.items[i][k] # other'.added[1][k]]_vars

C16_Witness ==
    /\ BothAddedOnce
    /\ me.added[1].id = other.added[1].id
    /\ me.added[1].tags # other.added[1].tags
    /\ Len(file.items) = 3 /\ Len(other.videos) = 3

=============================================================================
